---- MODULE Spec2Model ----
(***************************************************************************)
(* Model of main.py (I Love PyPDF): compress_pdf(input_file, output_file,  *)
(* high_quality) and main().  The file system, the PdfReader / PdfWriter   *)
(* objects and the printed lines are the state; every statement of         *)
(* compress_pdf that touches the file system or the PDF library is one     *)
(* step of a caller, so that two callers can interleave.                   *)
(*                                                                         *)
(* Sizes are in bytes.  Figures the program rounds are kept as integers:   *)
(* sizes in hundredths of a KB (round(x, 2)), the reduction in tenths of a *)
(* percent (round(x, 1)).  processing_time is wall-clock time and is not   *)
(* modelled.                                                               *)
(***************************************************************************)
EXTENDS Integers, Sequences, FiniteSets, TLC

VARIABLES fs, perm, pc, entry, inp, outp, hq, pre, opened, reader, writer,
          idx, ops, printed, err, sizes, stats, status, ncalls

vars == <<fs, perm, pc, entry, inp, outp, hq, pre, opened, reader, writer,
          idx, ops, printed, err, sizes, stats, status, ncalls>>

(* ------------------------------ bounds -------------------------------- *)

\* Longest input document, in pages.
MaxPages == 2

\* Concurrent callers of the concurrent specification.
Callers == {1, 2}

(* ------------------------- program constants -------------------------- *)

\* page.compress_content_streams(level=9)
MaxLevel == 9

\* os.path.getsize(...) / 1024
BytesPerKB == 1024

\* input_file / output_file of main()
MainInput == "example.pdf"
MainOutput == "example_compressed.pdf"

Paths == {MainInput, MainOutput}

(* ----------------------------- data model ----------------------------- *)

\* A file: its size in bytes, what kind of content it holds, and the pages
\* of the document when the content is a well-formed PDF.
File(s, k, d) == [size |-> s, kind |-> k, pages |-> d]

NoFile == File(-1, "absent", <<>>)
None == [kind |-> "none"]

\* A page: its position in the file it came from, the encoding of its
\* content stream, and what (if anything) is wrong with it.
Page(i, e, d) == [id |-> i, enc |-> e, defect |-> d]

Defects == {"none", "stream", "ref"}

\* The documents a file on disk may hold: 0..MaxPages pages, page i at
\* position i, each page possibly defective.
DocsOfLen(n) == { [i \in 1..n |-> Page(i, "raw", d[i])] : d \in [1..n -> Defects] }
Docs == UNION { DocsOfLen(n) : n \in 0..MaxPages }
CleanDocs == { [i \in 1..n |-> Page(i, "raw", "none")] : n \in 0..MaxPages }

InSizes == {2048, 8192}
EmptyFile == File(0, "empty", <<>>)
GarbageFile == File(512, "garbage", <<>>)
OldOutput == File(4000, "pdf", <<Page(1, "std", "none")>>)

InputFiles ==
    {NoFile, EmptyFile, GarbageFile} \cup { File(s, "pdf", d) : s \in InSizes, d \in Docs }
OutputFiles == {NoFile, OldOutput}
Perms == {"rw", "ro", "none"}

Exists(p) == fs[p] # NoFile

Upd(f, c, v) == [f EXCEPT ![c] = v]

Abs(x) == IF x < 0 THEN -x ELSE x
Max(a, b) == IF a < b THEN b ELSE a

RECURSIVE SumBytes(_, _)
SumBytes(doc, n) ==
    IF n = 0 THEN 0
    ELSE SumBytes(doc, n - 1)
         + (CASE doc[n].enc = "std" -> 1049
              [] doc[n].enc = "max" -> 1024
              [] OTHER -> 1100)

\* Bytes PdfWriter.write emits for a document: a fixed frame plus one object
\* per page whose size depends on how its content stream is encoded.
SerSize(doc) == 1000 + SumBytes(doc, Len(doc))

\* round(bytes / 1024, 2) in hundredths of a KB.  bytes / 1024 is exact in
\* binary floating point, so round() resolves ties to the even neighbour.
RoundKB(bytes) ==
    LET n == bytes * 100
        q == n \div BytesPerKB
        r == n % BytesPerKB
    IN  IF 2 * r < BytesPerKB THEN q
        ELSE IF 2 * r > BytesPerKB THEN q + 1
        ELSE IF q % 2 = 0 THEN q ELSE q + 1

\* Mutant: the reduction is taken relative to the compressed size.
RoundTenths_OfCompressed(o, k) ==
    LET n == 1000 * (o - k)
        q == n \div k
    IN  { r \in {q, q + 1} : 2 * Abs(r * k - n) <= k }

\* round(((o - k) / o) * 100, 1) in tenths of a percent, o > 0, from the two
\* sizes in bytes (the /1024 cancels).  The quotient is a rounded float, so
\* on an exact tie either neighbour may come out.
RoundTenths(o, k) ==
    LET n == 1000 * (o - k)
        q == n \div o
    IN  { r \in {q, q + 1} : 2 * Abs(r * o - n) <= o }

\* Mutant: both branches of the quality test make the same call.
CompressArgs_AlwaysDefault(h) == <<>>

\* The argument list of page.compress_content_streams for a quality setting.
CompressArgs(h) == IF h THEN <<>> ELSE <<MaxLevel>>

Encoding(args) == IF args = <<>> THEN "std" ELSE "max"

\* Mutant: the generic except Exception clause comes first and shadows the
\* two specific ones.
Clause_GenericFirst(e) == "unexpected"

\* The except clause that catches an exception type, in clause order.
Clause(e) ==
    CASE e = "FileNotFoundError" -> "notfound"
      [] e = "PermissionError" -> "permission"
      [] OTHER -> "unexpected"

Op(name, page, args) == [op |-> name, page |-> page, args |-> args]

(* ------------------------------ initial ------------------------------- *)

InitCaller(cs) ==
    /\ pc = [c \in cs |-> "idle"]
    /\ entry = [c \in cs |-> "none"]
    /\ inp = [c \in cs |-> MainInput]
    /\ outp = [c \in cs |-> MainOutput]
    /\ hq = [c \in cs |-> TRUE]
    /\ pre = [c \in cs |-> fs]
    /\ opened = [c \in cs |-> NoFile]
    /\ reader = [c \in cs |-> <<>>]
    /\ writer = [c \in cs |-> <<>>]
    /\ idx = [c \in cs |-> 0]
    /\ ops = [c \in cs |-> <<>>]
    /\ printed = [c \in cs |-> <<>>]
    /\ err = [c \in cs |-> "none"]
    /\ sizes = [c \in cs |-> <<>>]
    /\ stats = [c \in cs |-> None]
    /\ status = [c \in cs |-> -1]
    /\ ncalls = [c \in cs |-> 0]

\* One caller; any input file, any permissions.
Init ==
    /\ fs \in { f \in [Paths -> InputFiles \cup OutputFiles] :
                  /\ f[MainInput] \in InputFiles
                  /\ f[MainOutput] \in OutputFiles }
    /\ perm \in [Paths -> Perms]
    /\ InitCaller({1})

\* Two callers on well-formed inputs with full permissions.
InitConc ==
    /\ fs \in { f \in [Paths -> InputFiles \cup OutputFiles] :
                  /\ f[MainInput].kind = "pdf"
                  /\ f[MainInput].pages \in CleanDocs
                  /\ f[MainOutput] \in OutputFiles }
    /\ perm = [p \in Paths |-> "rw"]
    /\ InitCaller(Callers)

(* ------------------------------ actions ------------------------------- *)

Raise(c, e) ==
    /\ err' = Upd(err, c, e)
    /\ pc' = Upd(pc, c, "except")

\* A caller invokes compress_pdf(i, o, h).
Enter(c, how, i, o, h) ==
    /\ pc[c] = "idle"
    /\ pc' = Upd(pc, c, "check")
    /\ entry' = Upd(entry, c, how)
    /\ inp' = Upd(inp, c, i)
    /\ outp' = Upd(outp, c, o)
    /\ hq' = Upd(hq, c, h)
    /\ pre' = Upd(pre, c, fs)
    /\ ncalls' = Upd(ncalls, c, ncalls[c] + 1)
    /\ UNCHANGED <<fs, perm, opened, reader, writer, idx, ops, printed, err,
                   sizes, stats, status>>

\* main(): stats = compress_pdf("example.pdf", "example_compressed.pdf")
MainCall(c) == Enter(c, "main", MainInput, MainOutput, TRUE)

\* Any other caller of compress_pdf.
DirectCall(c) ==
    \E i \in Paths, o \in Paths, h \in BOOLEAN : Enter(c, "direct", i, o, h)

\* Mutant: the existence check is left out.
InputMissing_Never(c) == FALSE

\* not os.path.exists(input_file)
InputMissing(c) == ~Exists(inp[c])

\* if not os.path.exists(input_file): raise FileNotFoundError
CheckExists(c) ==
    /\ pc[c] = "check"
    /\ IF InputMissing(c)
       THEN Raise(c, "FileNotFoundError")
       ELSE /\ pc' = Upd(pc, c, "open")
            /\ err' = err
    /\ UNCHANGED <<fs, perm, entry, inp, outp, hq, pre, opened, reader, writer,
                   idx, ops, printed, sizes, stats, status, ncalls>>

\* reader = PdfReader(input_file); writer = PdfWriter();
\* total_pages = len(reader.pages); print("Processing ...")
OpenReader(c) ==
    /\ pc[c] = "open"
    /\ ops' = Upd(ops, c, Append(ops[c], Op("PdfReader", 0, <<>>)))
    /\ IF ~Exists(inp[c]) THEN
            /\ Raise(c, "FileNotFoundError")
            /\ UNCHANGED <<opened, reader, writer, printed>>
       ELSE IF perm[inp[c]] = "none" THEN
            /\ Raise(c, "PermissionError")
            /\ UNCHANGED <<opened, reader, writer, printed>>
       ELSE IF fs[inp[c]].kind # "pdf" THEN
            /\ Raise(c, "PdfReadError")
            /\ opened' = Upd(opened, c, fs[inp[c]])
            /\ UNCHANGED <<reader, writer, printed>>
       ELSE /\ opened' = Upd(opened, c, fs[inp[c]])
            /\ reader' = Upd(reader, c, fs[inp[c]].pages)
            /\ writer' = Upd(writer, c, <<>>)
            /\ printed' = Upd(printed, c,
                              Append(printed[c], <<"Processing", Len(fs[inp[c]].pages)>>))
            /\ pc' = Upd(pc, c, "loop")
            /\ err' = err
    /\ UNCHANGED <<fs, perm, entry, inp, outp, hq, pre, idx, sizes, stats, status, ncalls>>

\* Mutant: the save block is indented into the loop body, so the output is
\* opened without waiting for the loop to run out.
LoopDone_Anytime(c) == TRUE

\* The for loop over enumerate(reader.pages, 1) has run out of pages.
LoopDone(c) == idx[c] = Len(reader[c])

\* for page_number, page in enumerate(reader.pages, 1):
\*     page.compress_content_streams() / (level=9)
CompressPage(c) ==
    /\ pc[c] = "loop"
    /\ ~LoopDone(c)
    /\ LET n == idx[c] + 1
           page == reader[c][n]
           args == CompressArgs(hq[c])
       IN  /\ ops' = Upd(ops, c, Append(ops[c], Op("compress_content_streams", n, args)))
           /\ IF page.defect = "stream"
              THEN /\ Raise(c, "PdfReadError")
                   /\ reader' = reader
              ELSE /\ reader' = Upd(reader, c,
                                    [reader[c] EXCEPT ![n] = [page EXCEPT !.enc = Encoding(args)]])
                   /\ pc' = Upd(pc, c, "add")
                   /\ err' = err
    /\ UNCHANGED <<fs, perm, entry, inp, outp, hq, pre, opened, writer, idx,
                   printed, sizes, stats, status, ncalls>>

\* Mutant: writer.add_page(page) is dedented out of the loop body, so only
\* the last page bound to `page` is added.
AddPage_OnlyLast(c) ==
    /\ pc[c] = "add"
    /\ LET n == idx[c] + 1
           page == reader[c][n]
       IN  /\ ops' = Upd(ops, c, Append(ops[c], Op("add_page", n, <<>>)))
           /\ writer' = Upd(writer, c, IF n = Len(reader[c])
                                        THEN Append(writer[c], page) ELSE writer[c])
           /\ idx' = Upd(idx, c, n)
           /\ printed' = Upd(printed, c, Append(printed[c], <<"Compressed page", n>>))
           /\ pc' = Upd(pc, c, "loop")
           /\ err' = err
    /\ UNCHANGED <<fs, perm, entry, inp, outp, hq, pre, opened, reader, sizes,
                   stats, status, ncalls>>

\* writer.add_page(page); print("Compressed page i/N")
AddPage(c) ==
    /\ pc[c] = "add"
    /\ LET n == idx[c] + 1
           page == reader[c][n]
       IN  /\ ops' = Upd(ops, c, Append(ops[c], Op("add_page", n, <<>>)))
           /\ IF page.defect = "ref"
              THEN /\ Raise(c, "PdfReadError")
                   /\ UNCHANGED <<writer, idx, printed>>
              ELSE /\ writer' = Upd(writer, c, Append(writer[c], page))
                   /\ idx' = Upd(idx, c, n)
                   /\ printed' = Upd(printed, c,
                                     Append(printed[c], <<"Compressed page", n>>))
                   /\ pc' = Upd(pc, c, "loop")
                   /\ err' = err
    /\ UNCHANGED <<fs, perm, entry, inp, outp, hq, pre, opened, reader, sizes, stats,
                   status, ncalls>>

\* Mutant: the output is opened without truncation (mode 'r+b' / 'ab'
\* instead of 'wb'); a missing file is still created.
OpenOutput_NoTruncate(c) ==
    /\ pc[c] = "loop"
    /\ idx[c] = Len(reader[c])
    /\ printed' = Upd(printed, c, Append(printed[c], <<"Saving", 0>>))
    /\ ops' = Upd(ops, c, Append(ops[c], Op("open_wb", 0, <<>>)))
    /\ IF perm[outp[c]] # "rw"
       THEN /\ Raise(c, "PermissionError")
            /\ fs' = fs
       ELSE /\ fs' = [fs EXCEPT ![outp[c]] = IF @ = NoFile THEN File(0, "empty", <<>>) ELSE @]
            /\ pc' = Upd(pc, c, "write")
            /\ err' = err
    /\ UNCHANGED <<perm, entry, inp, outp, hq, pre, opened, reader, writer, idx,
                   sizes, stats, status, ncalls>>

\* print("Saving compressed file..."); open(output_file, 'wb')
OpenOutput(c) ==
    /\ pc[c] = "loop"
    /\ LoopDone(c)
    /\ printed' = Upd(printed, c, Append(printed[c], <<"Saving", 0>>))
    /\ ops' = Upd(ops, c, Append(ops[c], Op("open_wb", 0, <<>>)))
    /\ IF perm[outp[c]] # "rw"
       THEN /\ Raise(c, "PermissionError")
            /\ fs' = fs
       ELSE /\ fs' = [fs EXCEPT ![outp[c]] = EmptyFile]
            /\ pc' = Upd(pc, c, "write")
            /\ err' = err
    /\ UNCHANGED <<perm, entry, inp, outp, hq, pre, opened, reader, writer, idx,
                   sizes, stats, status, ncalls>>

\* The file after the first n bytes of a serialisation of `doc` were written
\* from offset 0 through a handle of its own: the file holds the document
\* when all of it was written and nothing longer was there, and bytes
\* beyond n that another handle wrote stay.
Overlay(cur, n, doc) ==
    IF n = SerSize(doc) /\ cur.size <= n
    THEN File(n, "pdf", doc)
    ELSE File(Max(cur.size, n), "torn", <<>>)

\* writer.write(output) and the close of the with block.  The write either
\* completes or stops part-way with an OSError (device full).
WriteOutput(c) ==
    /\ pc[c] = "write"
    /\ ops' = Upd(ops, c, Append(ops[c], Op("write", 0, <<>>)))
    /\ \/ /\ fs' = [fs EXCEPT ![outp[c]] = Overlay(@, SerSize(writer[c]), writer[c])]
          /\ pc' = Upd(pc, c, "stat")
          /\ err' = err
       \/ /\ fs' = [fs EXCEPT ![outp[c]] = Overlay(@, SerSize(writer[c]) \div 2, writer[c])]
          /\ Raise(c, "OSError")
    /\ UNCHANGED <<perm, entry, inp, outp, hq, pre, opened, reader, writer, idx,
                   printed, sizes, stats, status, ncalls>>

\* original_size = os.path.getsize(input_file) / 1024
\* compressed_size = os.path.getsize(output_file) / 1024
\* reduction = ((original_size - compressed_size) / original_size) * 100
\* stats = {...}; print(...); return stats
\* The two getsize calls are taken in one step; sizes keeps the two byte
\* counts they returned.
ComputeStats(c) ==
    /\ pc[c] = "stat"
    /\ ops' = Upd(ops, c, Append(ops[c], Op("getsize", 0, <<>>)))
    /\ LET o == fs[inp[c]].size
           k == fs[outp[c]].size
       IN  IF o = 0
           THEN /\ Raise(c, "ZeroDivisionError")
                /\ sizes' = Upd(sizes, c, <<o, k>>)
                /\ UNCHANGED <<stats, printed>>
           ELSE /\ sizes' = Upd(sizes, c, <<o, k>>)
                /\ \E r \in RoundTenths(o, k) :
                      stats' = Upd(stats, c,
                                   [kind |-> "stats",
                                    original_size |-> RoundKB(o),
                                    compressed_size |-> RoundKB(k),
                                    reduction_percent |-> r])
                /\ printed' = Upd(printed, c, Append(printed[c], <<"Completed", 0>>))
                /\ pc' = Upd(pc, c, "returned")
                /\ err' = err
    /\ UNCHANGED <<fs, perm, entry, inp, outp, hq, pre, opened, reader, writer,
                   idx, status, ncalls>>

\* except FileNotFoundError / PermissionError / Exception: print(...); raise
Handler(c) ==
    /\ pc[c] = "except"
    /\ printed' = Upd(printed, c, Append(printed[c], <<Clause(err[c]), 0>>))
    /\ pc' = Upd(pc, c, "raised")
    /\ UNCHANGED <<fs, perm, entry, inp, outp, hq, pre, opened, reader, writer,
                   idx, ops, err, sizes, stats, status, ncalls>>

\* main(): return 0
MainReturn(c) ==
    /\ pc[c] = "returned"
    /\ entry[c] = "main"
    /\ status' = Upd(status, c, 0)
    /\ pc' = Upd(pc, c, "exited")
    /\ UNCHANGED <<fs, perm, entry, inp, outp, hq, pre, opened, reader, writer,
                   idx, ops, printed, err, sizes, stats, ncalls>>

\* Mutant: the except block of main() lacks its return 1 and falls through
\* to return 0.
MainExcept_FallsThrough(c) ==
    /\ pc[c] = "raised"
    /\ entry[c] = "main"
    /\ printed' = Upd(printed, c, Append(printed[c], <<"Compression failed", 0>>))
    /\ status' = Upd(status, c, 0)
    /\ pc' = Upd(pc, c, "exited")
    /\ UNCHANGED <<fs, perm, entry, inp, outp, hq, pre, opened, reader, writer,
                   idx, ops, err, sizes, stats, ncalls>>

\* main(): except Exception as e: print("Compression failed: ..."); return 1
MainExcept(c) ==
    /\ pc[c] = "raised"
    /\ entry[c] = "main"
    /\ printed' = Upd(printed, c, Append(printed[c], <<"Compression failed", 0>>))
    /\ status' = Upd(status, c, 1)
    /\ pc' = Upd(pc, c, "exited")
    /\ UNCHANGED <<fs, perm, entry, inp, outp, hq, pre, opened, reader, writer,
                   idx, ops, err, sizes, stats, ncalls>>

Next ==
    \/ \E c \in DOMAIN pc : MainCall(c)
    \/ \E c \in DOMAIN pc : DirectCall(c)
    \/ \E c \in DOMAIN pc : CheckExists(c)
    \/ \E c \in DOMAIN pc : OpenReader(c)
    \/ \E c \in DOMAIN pc : CompressPage(c)
    \/ \E c \in DOMAIN pc : AddPage(c)
    \/ \E c \in DOMAIN pc : OpenOutput(c)
    \/ \E c \in DOMAIN pc : WriteOutput(c)
    \/ \E c \in DOMAIN pc : ComputeStats(c)
    \/ \E c \in DOMAIN pc : Handler(c)
    \/ \E c \in DOMAIN pc : MainReturn(c)
    \/ \E c \in DOMAIN pc : MainExcept(c)

Spec == Init /\ [][Next]_vars

SpecConc == InitConc /\ [][Next]_vars

(* ------------------------------ claims -------------------------------- *)

Callees == DOMAIN pc

\* The call of caller c came back with a stats record.
Succeeded(c) == stats[c].kind = "stats"

\* The call of caller c is over (returned or raised).
Over(c) == pc[c] \in {"returned", "raised", "exited"}

CompressOps(c) == LET IsCompress(x) == x.op = "compress_content_streams"
                  IN  SelectSeq(ops[c], IsCompress)

HasOp(c, name) == \E i \in 1..Len(ops[c]) : ops[c][i].op = name

Diagnostics(c) ==
    { i \in 1..Len(printed[c]) : printed[c][i][1] \in {"notfound", "permission", "unexpected"} }

\* C1: at every point of a call the output document is the prefix of the
\* input's pages handled so far, in input order; once the document is handed
\* to the writer, and on every successful return, it has exactly the input's
\* N pages with page i of the output being page i of the input, and that is
\* the document the output file holds.
C1_PagesPreserved ==
    \A c \in Callees :
        /\ Len(writer[c]) <= Len(opened[c].pages)
        /\ \A i \in 1..Len(writer[c]) :
              /\ writer[c][i].id = opened[c].pages[i].id
              /\ writer[c][i].defect = opened[c].pages[i].defect
        /\ pc[c] \in {"write", "stat", "returned"} \/ Succeeded(c)
              => Len(writer[c]) = Len(opened[c].pages)
        /\ Succeeded(c) => fs[outp[c]].pages = writer[c]

C1_Witness ==
    \E c \in Callees :
        /\ Succeeded(c)
        /\ Len(opened[c].pages) = MaxPages
        /\ Len(writer[c]) = MaxPages

\* C2: when the input path does not exist as the call starts, the call
\* raises FileNotFoundError having made no library or file call at all (no
\* reader opened, no page compressed, nothing opened for writing), returns no
\* stats, and every file, the output path included, is as it was.
C2_NotFoundBeforeWork ==
    \A c \in Callees :
        (pc[c] \notin {"idle", "check"} /\ pre[c][inp[c]] = NoFile)
            => /\ err[c] = "FileNotFoundError"
               /\ pc[c] \in {"except", "raised", "exited"}
               /\ ops[c] = <<>>
               /\ opened[c] = NoFile
               /\ reader[c] = <<>>
               /\ ~Succeeded(c)
               /\ fs = pre[c]

C2_Witness ==
    \E c \in Callees :
        /\ pc[c] = "raised"
        /\ pre[c][inp[c]] = NoFile
        /\ err[c] = "FileNotFoundError"
        /\ fs[outp[c]] = OldOutput

\* C3: the compress_content_streams calls of one call are on pages 1, 2, ...
\* in turn, one per page, all with the same argument list: none when
\* high_quality is true, level=9 when it is false; a call that gets to the
\* save has made exactly one per input page.
C3_OneCompressPerPage ==
    \A c \in Callees :
        LET cs == CompressOps(c)
        IN  /\ \A i \in 1..Len(cs) :
                  /\ cs[i].page = i
                  /\ cs[i].args = IF hq[c] THEN <<>> ELSE <<9>>
            /\ Len(cs) \in {idx[c], idx[c] + 1}
            /\ HasOp(c, "open_wb") => Len(cs) = Len(opened[c].pages)
            /\ \A i \in 1..Len(writer[c]) :
                  writer[c][i].enc = IF hq[c] THEN "std" ELSE "max"

C3_Witness ==
    \E c \in Callees :
        /\ Succeeded(c)
        /\ ~hq[c]
        /\ Len(CompressOps(c)) = MaxPages

\* C4 (as amended): on every successful call reduction_percent is
\* (orig - comp) / orig * 100 rounded to one decimal, orig > 0 and comp being
\* the sizes on disk of the input and of the fully written output; it is
\* negative only if the output file is larger than the input, and it is not
\* positive whenever the output is larger.
C4_ReductionFromDiskSizes ==
    \A c \in Callees :
        pc[c] = "returned" =>
            LET o == fs[inp[c]].size
                k == fs[outp[c]].size
                r == stats[c].reduction_percent
            IN  /\ o > 0
                /\ fs[outp[c]].kind = "pdf"
                /\ sizes[c] = <<o, k>>
                /\ 2 * Abs(r * o - 1000 * (o - k)) <= o
                /\ r < 0 => k > o
                /\ k > o => r <= 0
                /\ stats[c].original_size = RoundKB(o)
                /\ stats[c].compressed_size = RoundKB(k)

\* C4 as stated: ... and the value is negative exactly when the output file
\* is larger than the input file.
C4_NegativeExactlyWhenLarger ==
    \A c \in Callees :
        pc[c] = "returned" =>
            LET o == fs[inp[c]].size
                k == fs[outp[c]].size
                r == stats[c].reduction_percent
            IN  /\ 2 * Abs(r * o - 1000 * (o - k)) <= o
                /\ r < 0 <=> k > o

C4_Witness ==
    \E c \in Callees :
        /\ pc[c] = "returned"
        /\ fs[outp[c]].size > fs[inp[c]].size
        /\ stats[c].reduction_percent = 0

\* C5 as stated: no call divides by an original size of 0, and a call on a
\* zero-byte file or on a document of zero pages returns no stats record.
C5_DegenerateInputRejected ==
    \A c \in Callees :
        /\ err[c] # "ZeroDivisionError"
        /\ (opened[c].size = 0 \/ (opened[c].kind = "pdf" /\ opened[c].pages = <<>>))
              => ~Succeeded(c)

\* C6: a call that raised returns no stats; by the time the failure reaches
\* the caller exactly one diagnostic line was printed, of the kind of the
\* failure (not-found, permission, unexpected) and as the last line of
\* compress_pdf; the failure that reaches the caller is the one raised; and
\* no library or file call was made twice.
C6_FailuresPropagate ==
    \A c \in Callees :
        /\ err[c] # "none" => pc[c] \in {"except", "raised", "exited"} /\ ~Succeeded(c)
        /\ pc[c] = "except" => Diagnostics(c) = {}
        /\ err[c] = "none" => Diagnostics(c) = {}
        /\ (pc[c] \in {"raised", "exited"} /\ err[c] # "none") =>
              LET want == CASE err[c] = "FileNotFoundError" -> "notfound"
                            [] err[c] = "PermissionError" -> "permission"
                            [] err[c] \in {"PdfReadError", "OSError", "ZeroDivisionError"}
                                  -> "unexpected"
              IN  /\ Cardinality(Diagnostics(c)) = 1
                  /\ \A i \in Diagnostics(c) : printed[c][i][1] = want
        /\ \A i, j \in 1..Len(ops[c]) : i # j => ops[c][i] # ops[c][j]

C6_Witness ==
    \E c \in Callees :
        /\ pc[c] = "raised"
        /\ err[c] = "PermissionError"
        /\ HasOp(c, "open_wb")
        /\ Cardinality(Diagnostics(c)) = 1

\* C7: main calls compress_pdf once, on its two fixed paths with
\* high_quality true; it exits with 0 exactly when the call returned stats
\* and with 1 exactly when the call raised, the last line printed then being
\* the "Compression failed" summary.
C7_MainExitStatus ==
    \A c \in Callees :
        entry[c] = "main" =>
            /\ ncalls[c] = 1
            /\ hq[c] /\ inp[c] = MainInput /\ outp[c] = MainOutput
            /\ pc[c] # "exited" => status[c] = -1
            /\ pc[c] = "exited" =>
                  /\ status[c] \in {0, 1}
                  /\ status[c] = 0 <=> Succeeded(c)
                  /\ status[c] = 1 <=> err[c] # "none"
                  /\ status[c] = 1 =>
                        printed[c][Len(printed[c])] = <<"Compression failed", 0>>
                  /\ status[c] = 0 =>
                        \A i \in 1..Len(printed[c]) : printed[c][i][1] # "Compression failed"

C7_Witness ==
    \E c \in Callees :
        /\ entry[c] = "main"
        /\ pc[c] = "exited"
        /\ status[c] = 1
        /\ err[c] = "PermissionError"

\* C8 as stated: after a call, successful or failed, the input file is as it
\* was when the call opened it, for every pair of paths, and the reported
\* original_size is the size of the file that was read.
C8_InputNeverWritten ==
    \A c \in Callees :
        (Over(c) /\ opened[c] # NoFile) =>
            /\ fs[inp[c]] = opened[c]
            /\ Succeeded(c) => stats[c].original_size = RoundKB(opened[c].size)

\* C9: until a call has opened its output for writing no file has changed,
\* and it opens it only once every input page was compressed and appended;
\* so a call that fails on opening the input or on a page leaves the output
\* path as it was, absent or with its old contents.
C9_OutputUntouchedBeforeSave ==
    \A c \in Callees :
        /\ ~HasOp(c, "open_wb") => fs = pre[c]
        /\ HasOp(c, "open_wb") =>
              /\ idx[c] = Len(opened[c].pages)
              /\ Len(writer[c]) = Len(opened[c].pages)
              /\ Len(CompressOps(c)) = Len(opened[c].pages)
        /\ fs # pre[c] => perm[outp[c]] = "rw"

C9_Witness ==
    \E c \in Callees :
        /\ pc[c] = "raised"
        /\ err[c] = "PdfReadError"
        /\ idx[c] >= 1
        /\ ~HasOp(c, "open_wb")
        /\ fs[outp[c]] = OldOutput

\* C10: a successful call whose output path no other call in progress or
\* finished shares read back the size of its own serialisation, reports the
\* compressed_size and the reduction_percent of that, and leaves the path
\* holding its complete document.  (Two calls sharing the path can end
\* otherwise: the witness.)
C10_DistinctOutputsDontRace ==
    \A c \in Callees :
        (Succeeded(c) /\ \A d \in Callees \ {c} : pc[d] = "idle" \/ outp[d] # outp[c])
            => LET n == SerSize(writer[c])
               IN  /\ sizes[c][2] = n
                   /\ stats[c].compressed_size = RoundKB(n)
                   /\ 2 * Abs(stats[c].reduction_percent * sizes[c][1]
                              - 1000 * (sizes[c][1] - n)) <= sizes[c][1]
                   /\ fs[outp[c]] = File(n, "pdf", writer[c])

\* Both calls returned stats, one of them with a compressed_size that is not
\* that of its own document, and the shared output file is neither call's
\* complete serialisation.
C10_Witness ==
    \E c, d \in Callees :
        /\ c # d
        /\ outp[c] = outp[d]
        /\ Succeeded(c) /\ Succeeded(d)
        /\ stats[d].compressed_size # RoundKB(SerSize(writer[d]))
        /\ fs[outp[c]].kind = "torn"

====
